---------------------------- MODULE Spec2Model ----------------------------
(* A model of oshea00/youtubesummary: the identifier resolver, the output  *)
(* writer, the pipeline of the command-line tool and the line-delimited    *)
(* RPC server of mcp_wrapper.py.  Text is a sequence of one-character      *)
(* strings; a Python/JSON value is a record [t |-> type, v |-> text].      *)
EXTENDS Integers, Sequences, FiniteSets, TLC

VARIABLES
    pc,          \* position of the running program
    url,         \* the raw input handed to the pipeline / extract_video_id
    video_id,    \* result of extract_video_id
    transcript,  \* result of get_transcript
    summary,     \* result of generate_summary
    output_file, \* requested output filename
    save_to_file,\* the save_to_file argument of the tool call
    saved,       \* what save_to_markdown did: "none", "true", "false", "raised"
    calls,       \* the stages invoked in the current run, in order
    fs,          \* names in the working directory that are symlinks leaving it
    safe_filename, \* the sanitized name the last save computed
    wrote,       \* the resolved path the last save wrote to
    exitCode,    \* exit code of the command-line tool
    line,        \* the input line the RPC server is handling
    request,     \* the binding of main's local `request` in mcp_wrapper.py
    response,    \* the response line printed for `line` (or the tool's last message)
    raisedIn,    \* where handling the line raised: "none", "parse", "main",
                 \* "call_tool" (outside its try block) or "tool" (inside it)
    nread,       \* lines read by the RPC server
    nresp        \* response lines printed by the RPC server

vars == <<pc, url, video_id, transcript, summary, output_file, save_to_file,
          saved, calls, fs, safe_filename, wrote, exitCode, line, request, response,
          raisedIn, nread, nresp>>

---------------------------------------------------------------------------
(* Bounds of the model.                                                    *)
MaxPad == 1        \* whitespace characters around a raw input
MaxStem == 2       \* characters of a generated filename component
MaxLines == 2      \* input lines the RPC server reads

(* Program constants.                                                      *)
IdLen == 11
MaxNameLen == 255
MaxStemLen == 250
ExtLen == 3
ParseErrorCode == -32700
MethodNotFoundCode == -32601
InternalErrorCode == -32603

---------------------------------------------------------------------------
(* Text literals.                                                          *)
S_http == <<"h", "t", "t", "p", ":">>
S_https == <<"h", "t", "t", "p", "s", ":">>
S_badscheme == <<"1", "t", "t", "p", ":">>
S_slashes == <<"/", "/">>
D_youtube == <<"y", "o", "u", "t", "u", "b", "e", ".", "c", "o", "m">>
D_youtu_be == <<"y", "o", "u", "t", "u", ".", "b", "e">>
D_www == <<"w", "w", "w", ".", "y", "o", "u", "t", "u", "b", "e", ".", "c", "o", "m">>
D_m == <<"m", ".", "y", "o", "u", "t", "u", "b", "e", ".", "c", "o", "m">>
H_evil == <<"e", "v", "i", "l", ".", "c", "o", "m">>
H_localhost == <<"l", "o", "c", "a", "l", "h", "o", "s", "t">>
H_port == <<"w", "w", "w", ".", "y", "o", "u", "t", "u", "b", "e", ".", "c", "o", "m", ":", "4", "4", "3">>
H_bracket == <<"[", "e", "v", "i", "l", ".", "c", "o", "m">>
H_upper == <<"W", "W", "W", ".", "Y", "O", "U", "T", "U", "B", "E", ".", "C", "O", "M">>
P_watch == <<"y", "o", "u", "t", "u", "b", "e", ".", "c", "o", "m", "/", "w", "a", "t", "c", "h", "?", "v", "=">>
P_short == <<"y", "o", "u", "t", "u", ".", "b", "e", "/">>
P_embed == <<"y", "o", "u", "t", "u", "b", "e", ".", "c", "o", "m", "/", "e", "m", "b", "e", "d", "/">>
P_v == <<"y", "o", "u", "t", "u", "b", "e", ".", "c", "o", "m", "/", "v", "/">>
T_watch == <<"w", "a", "t", "c", "h", "?", "v", "=">>
T_embed == <<"e", "m", "b", "e", "d", "/">>
T_v == <<"v", "/">>
Id_rick == <<"d", "Q", "w", "4", "w", "9", "W", "g", "X", "c", "Q">>
Id_dash == <<"a", "-", "b", "_", "c", "-", "d", "_", "e", "-", "0">>
Q_extra == <<"&", "t", "=", "1", "s">>
F_default == <<"t", "r", "a", "n", "s", "c", "r", "i", "p", "t", ".", "m", "d">>
F_md == <<".", "m", "d">>
Lower == {"a", "b", "c", "d", "e", "f", "g", "h", "i", "j", "k", "l", "m", "n", "o", "p", "q", "r", "s", "t", "u", "v", "w", "x", "y", "z"}
Upper == {"A", "B", "C", "D", "E", "F", "G", "H", "I", "J", "K", "L", "M", "N", "O", "P", "Q", "R", "S", "T", "U", "V", "W", "X", "Y", "Z"}
Digits == {"0", "1", "2", "3", "4", "5", "6", "7", "8", "9"}
Whitespace == {" ", "\t", "\n"}

---------------------------------------------------------------------------
(* Python values and text helpers.                                         *)
PyStr(s) == [t |-> "str", v |-> s]
None == [t |-> "none", v |-> <<>>]
PyInt(digits) == [t |-> "int", v |-> digits]
PyBool(b) == [t |-> "bool", v |-> IF b THEN <<"1">> ELSE <<>>]
PyTrue == PyBool(TRUE)
PyFalse == PyBool(FALSE)

\* Python truth value: bool(x)
Truthy(x) ==
    CASE x.t = "none" -> FALSE
      [] x.t = "int"  -> x.v # <<"0">>
      [] OTHER        -> x.v # <<>>

IsStr(x) == x.t = "str"

Rep(c, n) == [i \in 1..n |-> c]

Chars(s) == {s[i] : i \in 1..Len(s)}

StartsAt(s, i, lit) ==
    /\ i + Len(lit) - 1 <= Len(s)
    /\ \A k \in 1..Len(lit) : s[i + k - 1] = lit[k]

EndsWith(s, lit) ==
    /\ Len(lit) <= Len(s)
    /\ StartsAt(s, Len(s) - Len(lit) + 1, lit)

\* str.find(c): the first index of a character of cs at or after `from`,
\* or Len(s) + 1 when there is none.
FindFirst(s, cs, from) ==
    LET hits == {i \in from..Len(s) : s[i] \in cs}
    IN  IF hits = {} THEN Len(s) + 1
        ELSE CHOOSE i \in hits : \A j \in hits : i <= j

\* str.strip()
Strip(s) ==
    LET keep == {i \in 1..Len(s) : s[i] \notin Whitespace}
    IN  IF keep = {} THEN <<>>
        ELSE LET lo == CHOOSE i \in keep : \A j \in keep : i <= j
                 hi == CHOOSE i \in keep : \A j \in keep : i >= j
             IN  SubSeq(s, lo, hi)

---------------------------------------------------------------------------
(* extract_video_id                                                        *)
IdChars == Lower \cup Upper \cup Digits \cup {"_", "-"}
SchemeChars == Lower \cup Upper \cup Digits \cup {"+", "-", "."}

UnsafeUrlChars == {"\t", "\r", "\n"}

valid_domains == {D_youtube, D_youtu_be, D_www, D_m}

\* urlparse(url): the part of urlsplit that decides netloc.  The result is
\* [raised, netloc]; raised models ValueError("Invalid IPv6 URL").
urlparse(raw) ==
    LET s == SelectSeq(raw, LAMBDA c : c \notin UnsafeUrlChars)
        i == FindFirst(s, {":"}, 1)
        hasScheme == /\ i > 1
                     /\ i <= Len(s)
                     /\ s[1] \in Lower \cup Upper
                     /\ \A k \in 1..(i - 1) : s[k] \in SchemeChars
        rest == IF hasScheme THEN SubSeq(s, i + 1, Len(s)) ELSE s
        delim == FindFirst(rest, {"/", "?", "#"}, 3)
        netloc == IF StartsAt(rest, 1, S_slashes)
                  THEN SubSeq(rest, 3, delim - 1) ELSE <<>>
        open == "[" \in Chars(netloc)
        close == "]" \in Chars(netloc)
    IN  [raised |-> (open /\ ~close) \/ (close /\ ~open), netloc |-> netloc]

Contains(s, lit) == \E i \in 1..Len(s) : StartsAt(s, i, lit)

\* A plausible slip: a host is let through when an allow-listed domain
\* occurs anywhere in it.
DomainRejectedSubstring(s) ==
    LET parsed_url == urlparse(s)
    IN  /\ ~parsed_url.raised
        /\ parsed_url.netloc # <<>>
        /\ ~\E d \in valid_domains : Contains(parsed_url.netloc, d)
        /\ "." \in Chars(parsed_url.netloc)

\* lines 30-37: the domain check; TRUE when the input is rejected
DomainRejected(s) ==
    LET parsed_url == urlparse(s)
    IN  /\ ~parsed_url.raised
        /\ parsed_url.netloc # <<>>
        /\ parsed_url.netloc \notin valid_domains
        /\ "." \in Chars(parsed_url.netloc)

\* [a-zA-Z0-9_-]{11} at position i
IdAt(s, i) ==
    /\ i + IdLen - 1 <= Len(s)
    /\ \A k \in i..(i + IdLen - 1) : s[k] \in IdChars

patterns == << {P_watch, P_short, P_embed}, {P_v} >>

\* re.search(pattern, url): the positions where the pattern matches
MatchStarts(s, alts) ==
    {i \in 1..Len(s) : \E lit \in alts : StartsAt(s, i, lit) /\ IdAt(s, i + Len(lit))}

\* match.group(1) of the leftmost match
Group1(s, alts) ==
    LET starts == MatchStarts(s, alts)
        i == CHOOSE a \in starts : \A b \in starts : a <= b
        lit == CHOOSE l \in alts : StartsAt(s, i, l) /\ IdAt(s, i + Len(l))
    IN  SubSeq(s, i + Len(lit), i + Len(lit) + IdLen - 1)

\* re.match(r"^[a-zA-Z0-9_-]{11}$", s)
IsVideoId(s) == Len(s) = IdLen /\ \A k \in 1..Len(s) : s[k] \in IdChars

extract_video_id(u) ==
    IF ~Truthy(u) \/ ~IsStr(u) THEN None
    ELSE LET s == Strip(u.v)
         IN  IF DomainRejected(s) THEN None
             ELSE IF MatchStarts(s, patterns[1]) # {}
                       /\ IsVideoId(Group1(s, patterns[1]))
                  THEN PyStr(Group1(s, patterns[1]))
             ELSE IF MatchStarts(s, patterns[2]) # {}
                       /\ IsVideoId(Group1(s, patterns[2]))
                  THEN PyStr(Group1(s, patterns[2]))
             ELSE IF IsVideoId(s) THEN PyStr(s)
             ELSE None

---------------------------------------------------------------------------
(* sanitize_filename and save_to_markdown                                  *)
\* "NUL" stands for the null character
dangerous_chars == {"<", ">", ":", "\"", "|", "?", "*", "NUL"}

\* os.path.basename (posixpath): what follows the last "/"
basename(s) ==
    LET slashes == {i \in 1..Len(s) : s[i] = "/"}
        last == IF slashes = {} THEN 0
                ELSE CHOOSE i \in slashes : \A j \in slashes : i >= j
    IN  SubSeq(s, last + 1, Len(s))

ReplaceDangerous(s) ==
    [i \in 1..Len(s) |-> IF s[i] \in dangerous_chars THEN "_" ELSE s[i]]

\* A plausible slip: the suffix is added without looking at the name.
EnsureMdAlways(s) == s \o F_md

\* lines 114-115
EnsureMd(s) == IF EndsWith(s, F_md) THEN s ELSE s \o F_md

\* lines 118-120: filename[:-3][:250] + ".md"
LimitLength(s) ==
    IF Len(s) > MaxNameLen
    THEN LET stem == SubSeq(s, 1, Len(s) - ExtLen)
             name_part == SubSeq(stem, 1, IF Len(stem) < MaxStemLen THEN Len(stem) ELSE MaxStemLen)
         IN  name_part \o F_md
    ELSE s

\* sanitize_filename(filename): [raised, name]; raised models the TypeError
\* of os.path.basename on a value that is no string.
sanitize_filename(f) ==
    IF ~Truthy(f) THEN [raised |-> FALSE, name |-> F_default]
    ELSE IF ~IsStr(f) THEN [raised |-> TRUE, name |-> <<>>]
    ELSE [raised |-> FALSE,
          name |-> LimitLength(EnsureMd(ReplaceDangerous(basename(f.v))))]

\* The working directory and the place its outward symlinks point to, as
\* sequences of path components below the root.
current_dir == << <<"h">>, <<"w">> >>
OutsideTarget == << <<"e">>, <<"p">> >>

\* The components of a path text, split at "/".
RECURSIVE Components(_)
Components(s) ==
    IF s = <<>> THEN <<>>
    ELSE LET j == FindFirst(s, {"/"}, 1)
         IN  <<SubSeq(s, 1, j - 1)>> \o Components(SubSeq(s, j + 1, Len(s)))

\* Path(name).resolve(): walk the components from the working directory
\* (from the root for an absolute name), following the symlinks in links.
RECURSIVE Walk(_, _, _)
Walk(at, comps, links) ==
    IF comps = <<>> THEN at
    ELSE LET c == Head(comps)
             next == IF c = <<>> \/ c = <<".">> THEN at
                     ELSE IF c = <<".", ".">>
                          THEN (IF at = <<>> THEN at ELSE SubSeq(at, 1, Len(at) - 1))
                     ELSE IF at = current_dir /\ c \in links THEN OutsideTarget
                     ELSE Append(at, c)
         IN  Walk(next, Tail(comps), links)

Resolve(name, links) ==
    Walk(IF name # <<>> /\ name[1] = "/" THEN <<>> ELSE current_dir,
         Components(name), links)

\* A confinement check that lets every path through.
IsWithinAlways(path, dir) == TRUE

\* safe_path.relative_to(current_dir) does not raise
IsWithin(path, dir) ==
    /\ Len(dir) <= Len(path)
    /\ SubSeq(path, 1, Len(dir)) = dir

NoPath == << <<"-">> >>

\* save_to_markdown(transcript, summary, output_file, video_url, model):
\* [raised, safe, ok, path]; writable is whether open(..., "w") succeeds.
save_to_markdown(f, links, writable) ==
    LET safe == sanitize_filename(f)
        safe_path == Resolve(safe.name, links)
    IN  IF safe.raised
        THEN [raised |-> TRUE, safe |-> <<>>, ok |-> FALSE, path |-> NoPath]
        ELSE IF ~IsWithin(safe_path, current_dir)
        THEN [raised |-> FALSE, safe |-> safe.name, ok |-> FALSE, path |-> NoPath]
        ELSE IF ~writable
        THEN [raised |-> FALSE, safe |-> safe.name, ok |-> FALSE, path |-> NoPath]
        ELSE [raised |-> FALSE, safe |-> safe.name, ok |-> TRUE, path |-> safe_path]

---------------------------------------------------------------------------
(* The pipeline stages shared by the two front-ends.                       *)
Stages == <<"extract_video_id", "get_transcript", "generate_summary", "save_to_markdown">>

\* What the transcript service can make get_transcript return (lines 59-69):
\* the joined text, possibly empty, or None after any exception.
TranscriptOutcomes == {PyStr(<<"t">>), PyStr(<<>>), None}

\* What generate_summary can return (lines 72-97): the first choice's
\* content (text, empty text or None), or None after any exception.
SummaryOutcomes == {PyStr(<<"s">>), PyStr(<<>>), None}

Absent == [t |-> "absent", v |-> <<>>]

\* dict.get(key, default)
Get(x, default) == IF x = Absent THEN default ELSE x

F_a_md == <<"a", ".", "m", "d">>
F_traversal == <<".", ".", "/", ".", ".", "/", "e", "/", "p">>
U_evil == S_https \o S_slashes \o H_evil \o <<"/">> \o T_watch \o Id_rick
U_watch == S_https \o S_slashes \o D_www \o <<"/">> \o T_watch \o Id_rick \o Q_extra

\* The test `if not value:` that ends the command-line run (lines 202-226)
CliStageFailed(value) == ~Truthy(value)

\* A front-end that never stops at a failed stage.
StageFailedNever(value) == FALSE

\* The test `if not value:` that ends a tool call (mcp_wrapper.py 92-116)
ToolStageFailed(value) == ~Truthy(value)

DefaultModel == <<"c", "l", "a", "u", "d", "e">>

\* A response line of the RPC server, or the last line the command-line
\* tool printed (kind "cli").
Resp(id, kind, code, payload, message) ==
    [id |-> id, kind |-> kind, code |-> code, payload |-> payload,
     message |-> message, video_id |-> None, video_url |-> None,
     transcript |-> None, summary |-> None, model_used |-> None, has_saved |-> FALSE,
     saved_to_file |-> FALSE, has_output_file |-> FALSE, output_file |-> None]

NoResponse == Resp(None, "none", 0, "-", "")

---------------------------------------------------------------------------
(* The command-line tool: main of youtube_summary.py.                      *)
CliArgs == {None, PyStr(Id_rick), PyStr(U_watch), PyStr(U_evil),
            PyStr(<<" ">> \o Id_rick)}
CliPrompted == {<<>>, <<" ", " ">>, Id_rick, <<" ">> \o U_watch \o <<"\n">>, H_evil}
CliOutputs == {F_default, F_a_md, F_traversal}

CliPrint(message) == Resp(None, "cli", 0, "-", message)

\* line 233: the exit code after save_to_markdown returned ok
CliSaveExitNoCheck(ok) == 0

CliSaveExit(ok) == IF ok THEN 0 ELSE 1

\* lines 198-204
CliGetUrl ==
    /\ pc = "cli_start"
    /\ \E arg \in CliArgs, typed \in CliPrompted, out \in CliOutputs :
         LET u == IF Truthy(arg) THEN arg ELSE PyStr(Strip(typed))
         IN  /\ url' = u
             /\ output_file' = PyStr(out)
             /\ IF CliStageFailed(u)
                THEN /\ response' = CliPrint("Error: No YouTube URL provided")
                     /\ exitCode' = 1
                     /\ pc' = "cli_exit"
                ELSE /\ pc' = "cli_resolve"
                     /\ UNCHANGED <<response, exitCode>>
    /\ UNCHANGED <<video_id, transcript, summary, save_to_file, saved, calls,
                   fs, safe_filename, wrote, line, request, raisedIn, nread, nresp>>

\* lines 207-212
CliResolve ==
    /\ pc = "cli_resolve"
    /\ calls' = Append(calls, Stages[1])
    /\ video_id' = extract_video_id(url)
    /\ IF CliStageFailed(video_id')
       THEN /\ response' = CliPrint("Error: Invalid YouTube URL or video ID")
            /\ exitCode' = 1
            /\ pc' = "cli_exit"
       ELSE /\ response' = CliPrint("Video ID")
            /\ pc' = "cli_fetch"
            /\ UNCHANGED exitCode
    /\ UNCHANGED <<url, transcript, summary, output_file, save_to_file, saved,
                   fs, safe_filename, wrote, line, request, raisedIn, nread, nresp>>

\* lines 215-221
CliFetch ==
    /\ pc = "cli_fetch"
    /\ calls' = Append(calls, Stages[2])
    /\ \E t \in TranscriptOutcomes :
         /\ transcript' = t
         /\ IF CliStageFailed(t)
            THEN /\ response' = CliPrint("Failed to download transcript")
                 /\ exitCode' = 1
                 /\ pc' = "cli_exit"
            ELSE /\ response' = CliPrint("Transcript downloaded successfully")
                 /\ pc' = "cli_summarize"
                 /\ UNCHANGED exitCode
    /\ UNCHANGED <<url, video_id, summary, output_file, save_to_file, saved,
                   fs, safe_filename, wrote, line, request, raisedIn, nread, nresp>>

\* lines 224-230
CliSummarize ==
    /\ pc = "cli_summarize"
    /\ calls' = Append(calls, Stages[3])
    /\ \E s \in SummaryOutcomes :
         /\ summary' = s
         /\ IF CliStageFailed(s)
            THEN /\ response' = CliPrint("Failed to generate summary")
                 /\ exitCode' = 1
                 /\ pc' = "cli_exit"
            ELSE /\ response' = CliPrint("Summary generated successfully")
                 /\ pc' = "cli_save"
                 /\ UNCHANGED exitCode
    /\ UNCHANGED <<url, video_id, transcript, output_file, save_to_file, saved,
                   fs, safe_filename, wrote, line, request, raisedIn, nread, nresp>>

\* lines 233-234; an exception leaving main ends the process with code 1
CliSave ==
    /\ pc = "cli_save"
    /\ calls' = Append(calls, Stages[4])
    /\ \E writable \in BOOLEAN :
         LET r == save_to_markdown(output_file, fs, writable)
         IN  /\ saved' = IF r.raised THEN "raised" ELSE IF r.ok THEN "true" ELSE "false"
             /\ safe_filename' = r.safe
             /\ wrote' = r.path
             /\ exitCode' = IF r.raised THEN 1 ELSE CliSaveExit(r.ok)
             /\ response' = CliPrint(IF r.raised THEN "Traceback"
                                     ELSE IF r.ok THEN "Summary and transcript saved to"
                                     ELSE IF ~IsWithin(Resolve(r.safe, fs), current_dir)
                                     THEN "Error: Output file must be in current directory"
                                     ELSE "Error: Unable to save file. Please check permissions and try again.")
    /\ pc' = "cli_exit"
    /\ UNCHANGED <<url, video_id, transcript, summary, output_file, save_to_file,
                   fs, line, request, raisedIn, nread, nresp>>

---------------------------------------------------------------------------
(* The RPC server: mcp_wrapper.py.                                         *)
\* A parsed request line: kind is "object" for a JSON object, "nonobject"
\* for any other JSON value, "unbound" while main's local is not yet bound.
\* params, name and arguments say what the object holds there; the last
\* five fields are the entries of the arguments object.
Req(kind, id, method, params, name, arguments, u, m, out, save) ==
    [kind |-> kind, id |-> id, method |-> method, params |-> params,
     name |-> name, arguments |-> arguments, url |-> u, model |-> m,
     output_file |-> out, save_to_file |-> save]

Unbound == Req("unbound", Absent, "absent", "absent", "absent", "absent",
               Absent, Absent, Absent, Absent)

Ids == {Absent, PyInt(<<"7">>)}
RpcUrls == {Absent, PyStr(<<>>), PyStr(U_watch), PyStr(U_evil),
            PyInt(<<"5">>)}
RpcModels == {Absent, PyStr(<<"g">>)}
RpcOutputs == {Absent, PyStr(<<>>), PyStr(F_a_md), PyStr(F_traversal), PyInt(<<"5">>)}
RpcSaveFlags == {Absent, PyTrue, PyFalse}

Bare(id, method, params, name, arguments) ==
    Req("object", id, method, params, name, arguments, Absent, Absent, Absent, Absent)

ObjectRequests ==
    {Bare(id, m, "absent", "absent", "absent") :
        id \in Ids, m \in {"tools/list", "other", "absent"}}
    \cup {Bare(id, "tools/call", p, "absent", "absent") :
        id \in Ids, p \in {"absent", "notobject"}}
    \cup {Bare(id, "tools/call", "object", n, "absent") :
        id \in Ids, n \in {"absent", "unknown", "unhashable"}}
    \cup {Bare(id, "tools/call", "object", "youtube_summary", a) :
        id \in Ids, a \in {"absent", "notobject"}}
    \cup {Req("object", id, "tools/call", "object", "youtube_summary", "object",
              u, m, out, save) :
        id \in Ids, u \in RpcUrls, m \in RpcModels, out \in RpcOutputs,
        save \in RpcSaveFlags}

\* An input line: parse says what json.loads(line.strip()) does with it:
\* "ok", "decode_error" (JSONDecodeError) or "other_error" (another
\* exception, as RecursionError or ValueError of an over-long number).
Lines ==
    {[parse |-> "decode_error", req |-> Unbound],
     [parse |-> "other_error", req |-> Unbound],
     [parse |-> "ok", req |-> Req("nonobject", Absent, "absent", "absent",
                                  "absent", "absent", Absent, Absent, Absent, Absent)]}
    \cup {[parse |-> "ok", req |-> r] : r \in ObjectRequests}

\* request.get("id")
IdOf(req) == Get(req.id, None)

ParseError == Resp(None, "error", ParseErrorCode, "-", "Parse error")
MethodNotFound(id) == Resp(id, "error", MethodNotFoundCode, "-", "Method not found")
InternalError(id) == Resp(id, "error", InternalErrorCode, "-", "Internal error")
ToolList(id) == Resp(id, "result", 0, "tools", "youtube_summary")
ToolError(id, message) == Resp(id, "result", 0, "isError", message)

\* call_tool without its try block: the exception reaches main.
call_tool_propagates(id) == InternalError(id)

\* lines 79-83: call_tool's handler of an exception raised in the tool
call_tool_except(id) == ToolError(id, "Error calling tool youtube_summary")

\* lines 122-128 and 137-139
SummaryResult(id, vid, u, t, s, m) ==
    [Resp(id, "result", 0, "summary", "") EXCEPT
        !.video_id = vid, !.video_url = u, !.transcript = t, !.summary = s,
        !.model_used = m]

\* A fold of the save outcome that reports the path whatever the outcome.
FoldSaveAlways(resp, success, out) ==
    [resp EXCEPT !.has_saved = TRUE, !.saved_to_file = success,
                 !.has_output_file = TRUE, !.output_file = out]

\* lines 132-135
FoldSave(resp, success, out) ==
    [resp EXCEPT !.has_saved = TRUE, !.saved_to_file = success,
                 !.has_output_file = success,
                 !.output_file = IF success THEN out ELSE None]

\* The locals of _youtube_summary before a call.
FreshRun ==
    /\ video_id' = None
    /\ transcript' = None
    /\ summary' = None
    /\ saved' = "none"
    /\ calls' = <<>>
    /\ safe_filename' = <<>>
    /\ wrote' = NoPath

Emit(resp) ==
    /\ response' = resp
    /\ nresp' = nresp + 1
    /\ pc' = "rpc_read"

\* lines 146-207 for a line that json.loads rejects with JSONDecodeError
ReadGarbage ==
    /\ pc = "rpc_read" /\ nread < MaxLines
    /\ line' = [parse |-> "decode_error", req |-> Unbound]
    /\ nread' = nread + 1
    /\ FreshRun
    /\ Emit(ParseError)
    /\ raisedIn' = "parse"
    /\ UNCHANGED <<url, output_file, save_to_file, fs, exitCode, request>>

\* lines 197-207 for a line on which json.loads raises another exception:
\* `request` is still what an earlier line bound it to
ReadUnparsed ==
    /\ pc = "rpc_read" /\ nread < MaxLines
    /\ line' = [parse |-> "other_error", req |-> Unbound]
    /\ nread' = nread + 1
    /\ FreshRun
    /\ Emit(InternalError(IF request.kind = "unbound" THEN None ELSE IdOf(request)))
    /\ raisedIn' = "parse"
    /\ UNCHANGED <<url, output_file, save_to_file, fs, exitCode, request>>

\* lines 148-150 and 197-200 for a JSON value that is no object: request.get
\* raises AttributeError, and again inside the handler, which ends main
ReadNonObject ==
    /\ pc = "rpc_read" /\ nread < MaxLines
    /\ \E l \in Lines :
         /\ l.parse = "ok" /\ l.req.kind = "nonobject"
         /\ line' = l
         /\ request' = l.req
    /\ nread' = nread + 1
    /\ FreshRun
    /\ raisedIn' = "main"
    /\ pc' = "rpc_crashed"
    /\ response' = NoResponse
    /\ UNCHANGED <<url, output_file, save_to_file, fs, exitCode, nresp>>

\* lines 150-157 and 172-183: tools/list and unknown methods
ReadOther ==
    /\ pc = "rpc_read" /\ nread < MaxLines
    /\ \E l \in Lines :
         /\ l.parse = "ok" /\ l.req.kind = "object" /\ l.req.method # "tools/call"
         /\ line' = l
         /\ request' = l.req
         /\ Emit(IF l.req.method = "tools/list" THEN ToolList(IdOf(l.req))
                 ELSE MethodNotFound(IdOf(l.req)))
    /\ nread' = nread + 1
    /\ FreshRun
    /\ raisedIn' = "none"
    /\ UNCHANGED <<url, output_file, save_to_file, fs, exitCode>>

\* lines 159-170 with call_tool (63-83) and the head of _youtube_summary
\* (87-96), up to the call of extract_video_id
ReadToolCall ==
    /\ pc = "rpc_read" /\ nread < MaxLines
    /\ \E l \in Lines :
         LET r == l.req
             id == IdOf(r)
             u == Get(r.url, None)
         IN  /\ l.parse = "ok" /\ r.kind = "object" /\ r.method = "tools/call"
             /\ line' = l
             /\ request' = r
             /\ url' = u
             /\ output_file' = Get(r.output_file, PyStr(F_default))
             /\ save_to_file' = Get(r.save_to_file, PyFalse)
             /\ IF r.params = "notobject"
                THEN /\ raisedIn' = "main"
                     /\ Emit(InternalError(id))
                ELSE IF r.params = "object" /\ r.name = "unhashable"
                THEN /\ raisedIn' = "call_tool"
                     /\ Emit(InternalError(id))
                ELSE IF r.params = "absent" \/ r.name # "youtube_summary"
                THEN /\ raisedIn' = "none"
                     /\ Emit(ToolError(id, "Unknown tool"))
                ELSE IF r.arguments = "notobject"
                THEN /\ raisedIn' = "tool"
                     /\ Emit(call_tool_except(id))
                ELSE IF ToolStageFailed(u)
                THEN /\ raisedIn' = "none"
                     /\ Emit(ToolError(id, "URL is required"))
                ELSE /\ raisedIn' = "none"
                     /\ pc' = "tool_resolve"
                     /\ response' = NoResponse
                     /\ UNCHANGED nresp
    /\ nread' = nread + 1
    /\ FreshRun
    /\ UNCHANGED <<fs, exitCode>>

\* lines 99-104
ToolResolve ==
    /\ pc = "tool_resolve"
    /\ calls' = Append(calls, Stages[1])
    /\ video_id' = extract_video_id(url)
    /\ IF ToolStageFailed(video_id')
       THEN Emit(ToolError(IdOf(request), "Invalid YouTube URL or video ID"))
       ELSE pc' = "tool_fetch" /\ UNCHANGED <<response, nresp>>
    /\ UNCHANGED <<url, transcript, summary, output_file, save_to_file, saved,
                   fs, safe_filename, wrote, exitCode, line, request, raisedIn, nread>>

\* lines 107-112
ToolFetch ==
    /\ pc = "tool_fetch"
    /\ calls' = Append(calls, Stages[2])
    /\ \E t \in TranscriptOutcomes :
         /\ transcript' = t
         /\ IF ToolStageFailed(t)
            THEN Emit(ToolError(IdOf(request), "Failed to download transcript"))
            ELSE pc' = "tool_summarize" /\ UNCHANGED <<response, nresp>>
    /\ UNCHANGED <<url, video_id, summary, output_file, save_to_file, saved,
                   fs, safe_filename, wrote, exitCode, line, request, raisedIn, nread>>

\* lines 115-128, and 137-139 when no save is requested
ToolSummarize ==
    /\ pc = "tool_summarize"
    /\ calls' = Append(calls, Stages[3])
    /\ \E s \in SummaryOutcomes :
         /\ summary' = s
         /\ IF ToolStageFailed(s)
            THEN Emit(ToolError(IdOf(request), "Failed to generate summary"))
            ELSE IF Truthy(save_to_file)
            THEN pc' = "tool_save" /\ UNCHANGED <<response, nresp>>
            ELSE Emit(SummaryResult(IdOf(request), video_id, url, transcript, s,
                                    Get(request.model, PyStr(DefaultModel))))
    /\ UNCHANGED <<url, video_id, transcript, output_file, save_to_file, saved,
                   fs, safe_filename, wrote, exitCode, line, request, raisedIn, nread>>

\* lines 131-139; an exception of save_to_markdown is caught by call_tool
ToolSave ==
    /\ pc = "tool_save"
    /\ calls' = Append(calls, Stages[4])
    /\ \E writable \in BOOLEAN :
         LET r == save_to_markdown(output_file, fs, writable)
             result == SummaryResult(IdOf(request), video_id, url, transcript, summary,
                                     Get(request.model, PyStr(DefaultModel)))
         IN  /\ saved' = IF r.raised THEN "raised" ELSE IF r.ok THEN "true" ELSE "false"
             /\ safe_filename' = r.safe
             /\ wrote' = r.path
             /\ raisedIn' = IF r.raised THEN "tool" ELSE "none"
             /\ Emit(IF r.raised THEN call_tool_except(IdOf(request))
                     ELSE FoldSave(result, r.ok, output_file))
    /\ UNCHANGED <<url, video_id, transcript, summary, output_file, save_to_file,
                   fs, exitCode, line, request, nread>>

\* line 146: standard input is exhausted and main returns
RpcEof ==
    /\ pc = "rpc_read"
    /\ pc' = "rpc_done"
    /\ UNCHANGED <<url, video_id, transcript, summary, output_file, save_to_file,
                   saved, calls, fs, safe_filename, wrote, exitCode, line, request,
                   response, raisedIn, nread, nresp>>

---------------------------------------------------------------------------
(* The specification of the two front-ends.                                *)
Links == {F_a_md}

Init ==
    /\ pc \in {"cli_start", "rpc_read"}
    /\ url = None
    /\ video_id = None
    /\ transcript = None
    /\ summary = None
    /\ output_file = PyStr(F_default)
    /\ save_to_file = PyFalse
    /\ saved = "none"
    /\ calls = <<>>
    /\ fs \in SUBSET Links
    /\ safe_filename = <<>>
    /\ wrote = NoPath
    /\ exitCode = 0
    /\ line = [parse |-> "decode_error", req |-> Unbound]
    /\ request = Unbound
    /\ response = NoResponse
    /\ raisedIn = "none"
    /\ nread = 0
    /\ nresp = 0

Next ==
    \/ CliGetUrl \/ CliResolve \/ CliFetch \/ CliSummarize \/ CliSave
    \/ ReadGarbage \/ ReadUnparsed \/ ReadNonObject \/ ReadOther \/ ReadToolCall
    \/ ToolResolve \/ ToolFetch \/ ToolSummarize \/ ToolSave \/ RpcEof

Spec == Init /\ [][Next]_vars

---------------------------------------------------------------------------
(* extract_video_id on its own, over a family of raw inputs.               *)
Id_short == SubSeq(Id_rick, 1, IdLen - 1)
Id_long == Id_rick \o <<"A">>
Id_bad == SubSeq(Id_rick, 1, IdLen - 1) \o <<".">>

Pads == {Rep(" ", n) : n \in 0..MaxPad}
Schemes == {<<>>, S_http, S_https, S_badscheme}
Hosts == {<<>>, D_youtube, D_youtu_be, D_www, D_m, H_evil, H_localhost, H_port,
          H_bracket, H_upper}
Separators == {<<>>, <<"/">>, <<"?">>}
Shapes == {<<>>, T_watch, T_embed, T_v, P_watch, P_short, P_v}
IdCandidates == {Id_rick, Id_dash, Id_short, Id_long, Id_bad}
Tails == {<<>>, Q_extra}

RawInputs ==
    {None, PyStr(<<>>), PyInt(<<"5">>)}
    \cup {PyStr(pad \o scheme \o slashes \o host \o sep \o shape \o id \o tail \o pad) :
            pad \in Pads, scheme \in Schemes, slashes \in {<<>>, S_slashes},
            host \in Hosts, sep \in Separators, shape \in Shapes,
            id \in IdCandidates, tail \in Tails}

Idle ==
    /\ transcript = None
    /\ summary = None
    /\ save_to_file = PyFalse
    /\ saved = "none"
    /\ calls = <<>>
    /\ safe_filename = <<>>
    /\ wrote = NoPath
    /\ exitCode = 0
    /\ line = [parse |-> "decode_error", req |-> Unbound]
    /\ request = Unbound
    /\ response = NoResponse
    /\ raisedIn = "none"
    /\ nread = 0
    /\ nresp = 0

InitResolve ==
    /\ pc = "resolve_in"
    /\ url \in RawInputs
    /\ video_id = None
    /\ output_file = PyStr(F_default)
    /\ fs = {}
    /\ Idle

\* lines 19-56
ExtractVideoId ==
    /\ pc = "resolve_in"
    /\ video_id' = extract_video_id(url)
    /\ pc' = "resolve_out"
    /\ UNCHANGED <<url, transcript, summary, output_file, save_to_file, saved,
                   calls, fs, safe_filename, wrote, exitCode, line, request,
                   response, raisedIn, nread, nresp>>

SpecResolve == InitResolve /\ [][ExtractVideoId]_vars

---------------------------------------------------------------------------
(* save_to_markdown on its own, over a family of requested filenames and   *)
(* of working directories.                                                 *)
FileChars == {"a", ".", "<", "/"}
Stems == UNION {[1..k -> FileChars] : k \in 0..MaxStem}
Dirs == {<<>>, <<".", ".", "/">>, <<"/">>, <<".", ".", "/", ".", ".", "/", "e", "/">>}
Fillers == {Rep("x", n) : n \in {0, MaxStemLen, MaxStemLen + 1, MaxNameLen}}
Extensions == {<<>>, F_md}

RequestedNames ==
    {None, PyStr(<<>>)}
    \cup {PyStr(dir \o stem \o fill \o ext) :
            dir \in Dirs, stem \in Stems, fill \in Fillers, ext \in Extensions}

SaveLinks == {F_a_md, F_default}

InitSave ==
    /\ pc = "save_in"
    /\ url = PyStr(Id_rick)
    /\ video_id = PyStr(Id_rick)
    /\ output_file \in RequestedNames
    /\ fs \in SUBSET SaveLinks
    /\ Idle

\* lines 125-164
SaveToMarkdown ==
    /\ pc = "save_in"
    /\ \E writable \in BOOLEAN :
         LET r == save_to_markdown(output_file, fs, writable)
         IN  /\ saved' = IF r.raised THEN "raised" ELSE IF r.ok THEN "true" ELSE "false"
             /\ safe_filename' = r.safe
             /\ wrote' = r.path
    /\ pc' = "save_out"
    /\ UNCHANGED <<url, video_id, transcript, summary, output_file, save_to_file,
                   calls, fs, exitCode, line, request, response, raisedIn, nread, nresp>>

SpecSave == InitSave /\ [][SaveToMarkdown]_vars

---------------------------------------------------------------------------
(* Properties.                                                             *)

\* The line being handled is a tools/call that reached _youtube_summary
\* with an arguments object (the default {} when absent).
IsSummaryCall ==
    /\ line.parse = "ok" /\ line.req.kind = "object"
    /\ line.req.method = "tools/call" /\ line.req.params = "object"
    /\ line.req.name = "youtube_summary" /\ line.req.arguments # "notobject"

IsToolCall ==
    /\ line.parse = "ok" /\ line.req.kind = "object"
    /\ line.req.method = "tools/call"

Responded == response.kind \in {"result", "error"}

RpcRunEnded == Responded /\ IsSummaryCall /\ raisedIn = "none"

RunEnded == pc = "cli_exit" \/ RpcRunEnded

Cli == pc \in {"cli_start", "cli_resolve", "cli_fetch", "cli_summarize",
               "cli_save", "cli_exit"}

\* C1: the RPC server never terminates because of one input line: whatever
\* the line holds, a response is printed for it and the server goes on to
\* read the next line.
C1_ServerSurvivesEveryLine ==
    /\ pc # "rpc_crashed"
    /\ pc \in {"rpc_read", "rpc_done"} => nresp = nread

\* C2: in both front-ends the stages run in the order extract_video_id,
\* get_transcript, generate_summary, save_to_markdown; a stage is invoked
\* only if every earlier stage succeeded, and the run reports the message
\* of the first stage that failed (a failed fetch: no generation call).
C2_StagesInOrder ==
    /\ \E k \in 0..Len(Stages) : calls = SubSeq(Stages, 1, k)
    /\ Len(calls) >= 1 => Truthy(url)
    /\ Len(calls) >= 2 => Truthy(video_id)
    /\ Len(calls) >= 3 => Truthy(transcript)
    /\ Len(calls) >= 4 => Truthy(summary)
    /\ RunEnded =>
         /\ ~Truthy(url) =>
              /\ calls = <<>>
              /\ response.message = IF Cli THEN "Error: No YouTube URL provided"
                                    ELSE "URL is required"
         /\ Truthy(url) /\ ~Truthy(video_id) =>
              /\ calls = SubSeq(Stages, 1, 1)
              /\ response.message = IF Cli THEN "Error: Invalid YouTube URL or video ID"
                                    ELSE "Invalid YouTube URL or video ID"
         /\ Truthy(video_id) /\ ~Truthy(transcript) =>
              /\ calls = SubSeq(Stages, 1, 2)
              /\ response.message = "Failed to download transcript"
         /\ Truthy(transcript) /\ ~Truthy(summary) =>
              /\ calls = SubSeq(Stages, 1, 3)
              /\ response.message = "Failed to generate summary"

\* C2 witness: a tool call whose transcript fetch failed for a valid identifier.
C2_Witness ==
    /\ RpcRunEnded
    /\ Truthy(video_id) /\ ~Truthy(transcript)
    /\ calls = SubSeq(Stages, 1, 2)
    /\ response.message = "Failed to download transcript"

\* The value extract_video_id works on and what urlparse makes of it.
ParsedInput == urlparse(Strip(url.v))

ForeignHost ==
    /\ IsStr(url)
    /\ ~ParsedInput.raised
    /\ ParsedInput.netloc # <<>>
    /\ ParsedInput.netloc \notin valid_domains

\* C3 (as stated): every input that parses as a URL with a non-empty
\* network location outside the allow-list is rejected.
C3_ForeignHostRejected ==
    pc = "resolve_out" /\ ForeignHost => video_id = None

\* C3 (amended): every input that parses as a URL whose network location
\* contains a "." and is not exactly an allow-listed host is rejected,
\* whatever path shape follows.
C3_DottedForeignHostRejected ==
    pc = "resolve_out" /\ ForeignHost /\ "." \in Chars(ParsedInput.netloc)
        => video_id = None

\* C3 witness: a foreign dotted host followed by a matching path shape.
C3_Witness ==
    /\ pc = "resolve_out"
    /\ ForeignHost
    /\ ParsedInput.netloc = H_evil
    /\ MatchStarts(Strip(url.v), patterns[1]) # {}
    /\ video_id = None

StagesSucceeded ==
    /\ Truthy(video_id) /\ Truthy(transcript) /\ Truthy(summary)

FullResult ==
    /\ response.kind = "result" /\ response.payload = "summary"
    /\ response.video_id = video_id
    /\ response.video_url = url
    /\ response.transcript = transcript
    /\ response.summary = summary
    /\ response.model_used = Get(line.req.model, PyStr(DefaultModel))

\* C4: in a tool call whose earlier stages all succeeded and that asked for
\* a save, a failing save_to_markdown leaves the full result, with the save
\* flag false and no output_file field; only a failure of an earlier stage
\* gives an error outcome.
C4_SaveFailureIsSoft ==
    /\ Responded /\ IsSummaryCall /\ StagesSucceeded /\ Truthy(save_to_file)
       /\ saved # "true"
         => /\ FullResult
            /\ response.has_saved /\ ~response.saved_to_file
            /\ ~response.has_output_file
    /\ Responded /\ IsSummaryCall /\ response.payload = "isError"
         => ~Truthy(url) \/ ~StagesSucceeded

\* What does hold: a save that returns False is reported in the result.
SaveReturningFalseIsSoft ==
    Responded /\ IsSummaryCall /\ StagesSucceeded /\ Truthy(save_to_file)
       /\ saved = "false"
         => /\ FullResult
            /\ response.has_saved /\ ~response.saved_to_file
            /\ ~response.has_output_file

\* C5: the command-line tool exits with code 1 exactly when no input was
\* supplied, the identifier is invalid, or the fetch, the generation or the
\* save failed; otherwise it ends with code 0.
C5_ExitCode ==
    pc = "cli_exit" =>
        /\ exitCode \in {0, 1}
        /\ exitCode = 1 <=>
             \/ ~Truthy(url)
             \/ ~Truthy(video_id)
             \/ ~Truthy(transcript)
             \/ ~Truthy(summary)
             \/ saved # "true"

\* C5 witness: a run whose stages succeeded and whose save failed.
C5_Witness ==
    /\ pc = "cli_exit"
    /\ StagesSucceeded
    /\ saved = "false"
    /\ exitCode = 1

InsideCwd(path) ==
    /\ Len(path) > Len(current_dir)
    /\ \A i \in 1..Len(current_dir) : path[i] = current_dir[i]

\* C6: whatever filename is requested, save_to_markdown either writes the
\* sanitized basename inside the working directory or refuses without
\* writing; nothing outside the working directory is written.
C6_WritesStayInside ==
    pc = "save_out" =>
        /\ saved = "true" =>
             /\ InsideCwd(wrote)
             /\ wrote = Append(current_dir, safe_filename)
             /\ "/" \notin Chars(safe_filename)
        /\ saved # "true" => wrote = NoPath

\* C6 witness: a name with traversal components, written inside.
C6_Witness ==
    /\ pc = "save_out"
    /\ IsStr(output_file)
    /\ StartsAt(output_file.v, 1, <<".", ".", "/">>)
    /\ saved = "true"
    /\ InsideCwd(wrote)

\* C7: every response line holds exactly one of result and error and the id
\* of the line that produced it: null when json.loads could not parse the
\* line, with code -32700 when it rejects the line as malformed; an unknown
\* method gives code -32601 with the request's id.
C7_ResponseCarriesRequestId ==
    Responded =>
        /\ response.id = IF line.parse = "ok" THEN IdOf(line.req) ELSE None
        /\ line.parse = "decode_error" =>
             response.kind = "error" /\ response.code = ParseErrorCode
        /\ line.parse = "ok" /\ line.req.method \in {"other", "absent"} =>
             response.kind = "error" /\ response.code = MethodNotFoundCode

\* C8 (as stated): an exception raised while a tools/call is handled, in
\* main, in call_tool or in _youtube_summary, gives the -32603 error.
C8_UncaughtFailureIsInternalError ==
    Responded /\ IsToolCall /\ raisedIn \in {"main", "call_tool", "tool"}
        => response.kind = "error" /\ response.code = InternalErrorCode

\* C8 (amended): an exception raised inside _youtube_summary is caught by
\* call_tool and answered with a result object marked isError; an exception
\* raised outside call_tool's try block gives the -32603 error with the id.
C8_ToolExceptionIsToolError ==
    Responded /\ IsToolCall =>
        /\ raisedIn = "tool" =>
             /\ response.kind = "result"
             /\ response.payload = "isError"
             /\ response.message = "Error calling tool youtube_summary"
             /\ response.id = IdOf(line.req)
        /\ raisedIn \in {"main", "call_tool"} =>
             /\ response.kind = "error"
             /\ response.code = InternalErrorCode
             /\ response.id = IdOf(line.req)

\* C8 witness: arguments that are no object made _youtube_summary raise.
C8_Witness ==
    /\ Responded /\ IsToolCall
    /\ line.req.arguments = "notobject"
    /\ raisedIn = "tool"
    /\ response.payload = "isError"

\* C9: sanitize_filename is idempotent.
C9_SanitizeIdempotent ==
    pc = "save_out" /\ saved # "raised" =>
        sanitize_filename(PyStr(safe_filename)).name = safe_filename

\* C9 witness: a name with a directory part, longer than the limit, that
\* sanitizing shortened.
C9_Witness ==
    /\ pc = "save_out"
    /\ IsStr(output_file)
    /\ Len(basename(output_file.v)) > MaxNameLen
    /\ basename(output_file.v) # output_file.v
    /\ Len(safe_filename) = MaxStemLen + ExtLen

\* C10: a tool-call result holds output_file exactly when a save was
\* requested and succeeded; the value is the output_file argument as given,
\* which names the written file exactly when sanitizing leaves it unchanged.
C10_OutputFileField ==
    Responded /\ response.payload = "summary" =>
        /\ response.has_output_file <=> (Truthy(save_to_file) /\ saved = "true")
        /\ response.has_output_file =>
             /\ response.output_file = output_file
             /\ (wrote = Append(current_dir, output_file.v))
                  <=> (sanitize_filename(output_file).name = output_file.v)

\* C10 witness: a traversal name reported as given, written elsewhere.
C10_Witness ==
    /\ Responded /\ response.payload = "summary"
    /\ response.has_output_file
    /\ response.output_file = PyStr(F_traversal)
    /\ wrote # Append(current_dir, F_traversal)
    /\ InsideCwd(wrote)
=============================================================================
